---- MODULE Spec2Model ----
(***************************************************************************)
(* A model of leptos_reactive's StoredValue arena                          *)
(* (src/leptos_reactive/src/stored_value.rs).                              *)
(*                                                                         *)
(* A runtime owns `stored_values`, a slotmap::SlotMap from StoredValueId   *)
(* (index, version) to Rc<RefCell<dyn Any>>.  A StoredValue<T> handle is a *)
(* Copy record of the id, a type marker and (nightly build) a raw pointer  *)
(* to the cell.  Every operation looks the id up in the current runtime.   *)
(* Both builds of the crate are modelled: `nightly` is fixed in Init.      *)
(* The const values of const_value.rs live in a second slot map of the     *)
(* runtime.  Each specification below exercises one part of the interface: *)
(* Spec, SpecScope, SpecCast, SpecNested, SpecRuntimes, SpecConst.         *)
(***************************************************************************)
EXTENDS Integers, Sequences, FiniteSets, TLC

\* ------------------------------------------------------------------ bounds
MaxStores == 2          \* store_value calls in one behaviour
MaxVal == 1             \* payloads are 0..MaxVal
MaxDepth == 2           \* closures running inside one another
MaxCopies == 2          \* copies of one handle held at the same time

\* ------------------------------------------------------------- vocabulary
RuntimeIds == {1, 2}
Scopes == {"A", "B"}
Types == {"i32", "u8"}
Vals == 0..MaxVal
Addrs == 1..MaxStores   \* heap addresses an Rc allocation can get
NoAddr == 0
Unsized == "dyn"        \* the type of a handle coerced to [T] or dyn Trait

None == [tag |-> "None"]
Some(v) == [tag |-> "Some", v |-> v]
Unit == [tag |-> "unit"]
Panic(msg) == [tag |-> "panic", msg |-> msg]
NoHandle == [tag |-> "no handle"]
NoCell == [ty |-> "freed", val |-> 0, borrow |-> 0]

VARIABLES
    nightly,    \* cfg(feature = "nightly")
    alive,      \* runtimes that exist
    current,    \* Runtime::current()
    slots,      \* per runtime: SlotMap slots, a sequence of [version, value]
    free,       \* per runtime: SlotMap free list, most recently freed first
    heap,       \* address -> RefCell (payload type, payload, borrow flag)
    owner,      \* per runtime: the scope that is active
    props,      \* per runtime, per scope: registered ScopeProperty tokens
    handles,    \* every StoredValue handed out so far
    last,       \* the most recent call and what it returned
    ghost,      \* what the caller knows of each issued slot
    stack,      \* the update_value / with_value calls whose closure is running
    const_values,   \* per runtime: the SlotMap slots of runtime.const_values
    const_free,     \* per runtime: its free list
    const_handles,  \* every ConstValue handed out so far
    const_rcs       \* the Rc<T> that get_value returned and the caller holds

vars == <<nightly, alive, current, slots, free, heap, owner, props, handles,
          last, ghost, stack, const_values, const_free, const_handles,
          const_rcs>>

\* the state of the const values
consts == <<const_values, const_free, const_handles, const_rcs>>

\* the handle's slot, as the caller knows it: (issuing runtime, id)
Key(h) == <<h.rt, h.id>>

\* ---------------------------------------------------------------- slotmap
\* SlotMap::get: the value only when the slot's version is the key's
SlotMapGet(sm, key) ==
    IF key.idx \in DOMAIN sm /\ sm[key.idx].version = key.version
    THEN sm[key.idx].value
    ELSE NoAddr

\* slot.version | 1: occupied versions are odd
Occupied(version) == IF version % 2 = 0 THEN version + 1 ELSE version

\* (a key that restarts at version 1 when an index is reused)
SlotMapInsertKey_no_version(sm, fl) ==
    IF fl # <<>>
    THEN [idx |-> Head(fl), version |-> 1]
    ELSE [idx |-> Len(sm) + 1, version |-> 1]

\* SlotMap::insert, the key: the head of the free list with its version made
\* odd (occupied), or a new slot at the end with version 1
SlotMapInsertKey(sm, fl) ==
    IF fl # <<>>
    THEN [idx |-> Head(fl), version |-> Occupied(sm[Head(fl)].version)]
    ELSE [idx |-> Len(sm) + 1, version |-> 1]

\* (an insert that issues the key and stores nothing)
SlotMapInsert_nothing(sm, fl, a) == sm

\* SlotMap::insert, the slots afterwards
SlotMapInsert(sm, fl, a) ==
    LET key == SlotMapInsertKey(sm, fl) IN
    IF fl # <<>>
    THEN [sm EXCEPT ![key.idx] = [version |-> key.version, value |-> a]]
    ELSE Append(sm, [version |-> key.version, value |-> a])

\* (a remove that empties whatever slot sits at the key's index)
SlotMapRemove_by_index(sm, key) ==
    IF key.idx \in DOMAIN sm /\ sm[key.idx].value # NoAddr
    THEN [sm EXCEPT ![key.idx] = [version |-> @.version + 1, value |-> NoAddr]]
    ELSE sm

\* SlotMap::remove, the slots afterwards: a live key's slot becomes vacant
\* with the version bumped (even); any other key changes nothing
SlotMapRemove(sm, key) ==
    IF SlotMapGet(sm, key) # NoAddr
    THEN [sm EXCEPT ![key.idx] = [version |-> @.version + 1, value |-> NoAddr]]
    ELSE sm

\* SlotMap::remove, the free list afterwards
SlotMapRemoveFree(sm, fl, key) ==
    IF SlotMapGet(sm, key) # NoAddr THEN <<key.idx>> \o fl ELSE fl

\* ---------------------------------------------------------------- runtime
\* with_runtime(f): Err when Runtime::current() names no runtime
with_runtime == current \in alive

stored_values == slots[current]

\* the closures callers pass: T::clone to try_with_value (that is
\* try_get_value), and an increment to try_update_value
clone(v) == v
incr(v) == (v + 1) % (MaxVal + 1)

BorrowPanic == -1       \* RefCell::borrow / borrow_mut found a conflicting guard

\* Rc::new(RefCell::new(value)): any address the allocator has free
FreeAddrs == {a \in Addrs : heap[a] = NoCell}

\* the allocator hands out the lowest free address, so a freed cell's address
\* is the next one reused
AllocChoices == {a \in FreeAddrs : \A b \in FreeAddrs : a <= b}

\* ------------------------------------------------------ the access protocol
\* (a lookup by the key's index alone)
get_inner_by_index(h) ==
    IF ~with_runtime THEN NoAddr
    ELSE IF h.id.idx \in DOMAIN stored_values
         THEN stored_values[h.id.idx].value
         ELSE NoAddr

\* (a pointer comparison that never succeeds)
get_inner_ptr_ne(h) ==
    IF ~with_runtime THEN NoAddr
    ELSE LET value == SlotMapGet(stored_values, h.id) IN
         IF value = NoAddr THEN NoAddr
         ELSE IF ~nightly THEN value
         ELSE NoAddr

\* StoredValue::get_inner: the cell the handle may touch, NoAddr for None.
\* stable: values.get(self.id).cloned()
\* nightly: the same lookup, then the payload's TypeId against self.ty and
\*          the cell's address against self.inner
get_inner(h) ==
    IF ~with_runtime THEN NoAddr
    ELSE LET value == SlotMapGet(stored_values, h.id) IN
         IF value = NoAddr THEN NoAddr
         ELSE IF ~nightly THEN value
         ELSE IF heap[value].borrow < 0 THEN BorrowPanic
         ELSE IF value = h.inner /\ heap[value].ty = h.ty THEN h.inner
         ELSE NoAddr

\* (a read that wants the cell for itself)
try_with_value_exclusive(h) ==
    LET value_ref == get_inner(h) IN
    IF value_ref = NoAddr THEN [res |-> None, called |-> FALSE]
    ELSE IF value_ref = BorrowPanic \/ heap[value_ref].borrow # 0
         THEN [res |-> Panic("already borrowed"), called |-> FALSE]
    ELSE IF ~nightly /\ heap[value_ref].ty # h.view
         THEN [res |-> None, called |-> FALSE]
    ELSE [res |-> Some(clone(heap[value_ref].val)), called |-> TRUE]

\* (a read that never asks the RefCell)
try_with_value_no_guard(h) ==
    LET value == IF with_runtime THEN SlotMapGet(stored_values, h.id)
                 ELSE NoAddr
    IN IF value = NoAddr THEN [res |-> None, called |-> FALSE]
       ELSE [res |-> Some(clone(heap[value].val)), called |-> TRUE]

\* StoredValue::try_with_value, with T::clone for f: what it returns, and
\* whether f was called
try_with_value(h) ==
    LET value_ref == get_inner(h) IN
    IF value_ref = NoAddr THEN [res |-> None, called |-> FALSE]
    ELSE IF value_ref = BorrowPanic \/ heap[value_ref].borrow < 0
         THEN [res |-> Panic("already mutably borrowed"), called |-> FALSE]
    ELSE IF ~nightly /\ heap[value_ref].ty # h.view
         THEN [res |-> None, called |-> FALSE]
    ELSE [res |-> Some(clone(heap[value_ref].val)), called |-> TRUE]

\* StoredValue::try_get_value
try_get_value(h) == try_with_value(h)

\* Option::expect
expect(r, msg) ==
    IF r.res = None THEN [res |-> Panic(msg), called |-> r.called] ELSE r

\* StoredValue::with_value
with_value(h) == expect(try_with_value(h), "could not get stored value")

\* StoredValue::get_value
get_value(h) == expect(try_get_value(h), "could not get stored value")

\* StoredValue::try_get_owned (nightly): try_with_value(T::to_owned)
try_get_owned(h) == try_with_value(h)

\* StoredValue::get_owned (nightly)
get_owned(h) == expect(try_get_owned(h), "could not get stored value")

\* (an update that takes the payload without asking the RefCell)
try_update_value_no_guard(h) ==
    LET value_ref == get_inner(h) IN
    IF value_ref = NoAddr THEN [res |-> None, called |-> FALSE]
    ELSE IF value_ref = BorrowPanic
         THEN [res |-> Some(incr(heap[SlotMapGet(stored_values, h.id)].val)),
               called |-> TRUE]
    ELSE IF ~nightly /\ heap[value_ref].ty # h.view
         THEN [res |-> None, called |-> FALSE]
    ELSE [res |-> Some(incr(heap[value_ref].val)), called |-> TRUE]

\* StoredValue::try_update_value, with an increment that returns the new
\* payload for f: what it returns, and whether f was called
try_update_value(h) ==
    LET value_ref == get_inner(h) IN
    IF value_ref = NoAddr THEN [res |-> None, called |-> FALSE]
    ELSE IF value_ref = BorrowPanic \/ heap[value_ref].borrow # 0
         THEN [res |-> Panic("already borrowed"), called |-> FALSE]
    ELSE IF ~nightly /\ heap[value_ref].ty # h.view
         THEN [res |-> None, called |-> FALSE]
    ELSE [res |-> Some(incr(heap[value_ref].val)), called |-> TRUE]

\* (an update whose closure result is returned and never stored)
try_update_value_heap_no_write(h) == heap

\* StoredValue::try_update_value: the heap afterwards
try_update_value_heap(h) ==
    IF try_update_value(h).called
    THEN [heap EXCEPT ![get_inner(h)].val = incr(@)]
    ELSE heap

\* StoredValue::update_value
update_value(h) == expect(try_update_value(h), "could not set stored value")

\* (a set that hands the value back when the cell is borrowed)
try_set_value_try_borrow(h, value) ==
    IF ~with_runtime THEN None
    ELSE LET n == SlotMapGet(stored_values, h.id) IN
         IF n = NoAddr THEN Some(value)
         ELSE IF heap[n].borrow # 0 THEN Some(value)
         ELSE IF heap[n].ty # h.view THEN Some(value)
         ELSE None

\* StoredValue::try_set_value: what it returns.  with_runtime(..).ok()
\* .flatten() turns a missing runtime into None
try_set_value(h, value) ==
    IF ~with_runtime THEN None
    ELSE LET n == SlotMapGet(stored_values, h.id) IN
         IF n = NoAddr THEN Some(value)
         ELSE IF heap[n].borrow # 0 THEN Panic("already borrowed")
         ELSE IF heap[n].ty # h.view THEN Some(value)
         ELSE None

\* (a set that checks the slot and never assigns)
try_set_value_heap_no_write(h, value) == heap

\* (a set that assigns without downcasting the cell to T first)
try_set_value_heap_unchecked(h, value) ==
    IF with_runtime
    THEN LET n == SlotMapGet(stored_values, h.id) IN
         IF n # NoAddr /\ heap[n].borrow = 0
         THEN [heap EXCEPT ![n].ty = h.view, ![n].val = value]
         ELSE heap
    ELSE heap

\* (a set that assigns to every cell of the payload's type)
try_set_value_heap_every_cell(h, value) ==
    [a \in Addrs |-> IF heap[a].ty = h.view
                     THEN [heap[a] EXCEPT !.val = value]
                     ELSE heap[a]]

\* StoredValue::try_set_value: the heap afterwards (*n = value)
try_set_value_heap(h, value) ==
    IF with_runtime
    THEN LET n == SlotMapGet(stored_values, h.id) IN
         IF n # NoAddr /\ heap[n].borrow = 0 /\ heap[n].ty = h.view
         THEN [heap EXCEPT ![n].val = value]
         ELSE heap
    ELSE heap

\* StoredValue::set_value: the result of try_set_value is dropped
set_value(h, value) ==
    IF try_set_value(h, value).tag = "panic" THEN try_set_value(h, value)
    ELSE Unit

\* --------------------------------------------------------------- the scopes
\* Runtime::push_scope_property: the token joins the active scope's list
push_scope_property(prop) ==
    [props EXCEPT ![current][owner[current]] = Append(@, prop)]

\* the tokens of one kind, in the order they were registered
TokensOf(tokens, kind) == SelectSeq(tokens, LAMBDA t : t.kind = kind)

\* the ids a scope's teardown removes, in the order it walks them
RECURSIVE cleanup_slots(_, _)
cleanup_slots(sm, tokens) ==
    IF tokens = <<>> THEN sm
    ELSE cleanup_slots(SlotMapRemove(sm, Head(tokens).id), Tail(tokens))

RECURSIVE cleanup_free(_, _, _)
cleanup_free(sm, fl, tokens) ==
    IF tokens = <<>> THEN fl
    ELSE cleanup_free(SlotMapRemove(sm, Head(tokens).id),
                      SlotMapRemoveFree(sm, fl, Head(tokens).id), Tail(tokens))

\* the cells whose slot a change of the slots removed
Dropped(sm, sm2) ==
    {sm[i].value : i \in {j \in DOMAIN sm : sm[j].value # NoAddr
                                            /\ sm2[j].value = NoAddr}}

FreeCells(hp, as) == [a \in Addrs |-> IF a \in as THEN NoCell ELSE hp[a]]

\* ------------------------------------------------------------------ actions
Call(op, h, arg, r) ==
    [op |-> op, h |-> h, arg |-> arg, res |-> r.res, called |-> r.called]

Ret(r) == [res |-> r, called |-> FALSE]

NewGhost(scope, T, v) ==
    [scope |-> scope, ty |-> T, val |-> v, disposed |-> FALSE, torn |-> FALSE,
     copies |-> 1]

\* what the caller expects of the slot: it was stored, never disposed, its
\* scope not torn down, its runtime not disposed
Expected(h) ==
    /\ ~ghost[Key(h)].disposed
    /\ ~ghost[Key(h)].torn
    /\ h.rt \in alive

\* a closure of update_value is running on the handle's slot
Guarded(h) == \E i \in DOMAIN stack : Key(stack[i].h) = Key(h)

GhostWrite(h, v) ==
    IF Expected(h) /\ current = h.rt /\ ~Guarded(h)
    THEN [ghost EXCEPT ![Key(h)].val = v]
    ELSE ghost

\* (a token that names the map's first key instead of the new one)
scope_property_first_key(id) ==
    [kind |-> "StoredValue", id |-> [idx |-> 1, version |-> 1]]

\* ScopeProperty::StoredValue(id)
scope_property(id) == [kind |-> "StoredValue", id |-> id]

\* the stores made so far, of either kind
Stores == Cardinality(DOMAIN ghost) + Cardinality(const_handles)

\* store_value::<T>(value)
StoreValue(T, value) ==
    /\ Stores < MaxStores
    /\ IF with_runtime
       THEN \E a \in AllocChoices :
            LET id == SlotMapInsertKey(stored_values, free[current])
                h == [id |-> id, ty |-> T, view |-> T,
                      inner |-> IF nightly THEN a ELSE NoAddr,
                      rt |-> current]
            IN /\ heap' = [heap EXCEPT ![a] = [ty |-> T, val |-> value,
                                                borrow |-> 0]]
               /\ slots' = [slots EXCEPT ![current] =
                              SlotMapInsert(@, free[current], a)]
               /\ free' = [free EXCEPT ![current] =
                              IF @ = <<>> THEN @ ELSE Tail(@)]
               /\ props' = push_scope_property(scope_property(id))
               /\ handles' = handles \cup {h}
               /\ ghost' = (Key(h) :> NewGhost(owner[current], T, value)) @@ ghost
               /\ last' = Call("store_value", h, value, Ret(Unit))
       ELSE /\ last' = Call("store_value", NoHandle, value, Ret(Panic(
                          "store_value failed to find the current runtime")))
            /\ UNCHANGED <<heap, slots, free, props, handles, ghost>>
    /\ UNCHANGED <<stack, consts, nightly, alive, current, owner>>

\* (a read that moves the value out of the arena)
Read_consumes(op, h, r) ==
    /\ last' = Call(op, h, -1, r)
    /\ slots' = IF with_runtime
                THEN [slots EXCEPT ![current] = SlotMapRemove(@, h.id)]
                ELSE slots
    /\ UNCHANGED <<stack, consts, nightly, alive, current, free, heap, owner,
                   props, handles, ghost>>

Read(op, h, r) ==
    /\ last' = Call(op, h, -1, r)
    /\ UNCHANGED <<stack, consts, nightly, alive, current, slots, free, heap, owner, props,
                   handles, ghost>>

TryWithValue(h) == Read("try_with_value", h, try_with_value(h))
WithValue(h) == Read("with_value", h, with_value(h))
TryGetValue(h) == Read("try_get_value", h, try_get_value(h))
GetValue(h) == Read("get_value", h, get_value(h))
TryGetOwned(h) == nightly /\ Read("try_get_owned", h, try_get_owned(h))
GetOwned(h) == nightly /\ Read("get_owned", h, get_owned(h))

TryUpdateValue(h) ==
    /\ last' = Call("try_update_value", h, -1, try_update_value(h))
    /\ heap' = try_update_value_heap(h)
    /\ ghost' = GhostWrite(h, incr(ghost[Key(h)].val))
    /\ UNCHANGED <<stack, consts, nightly, alive, current, slots, free, owner, props, handles>>

UpdateValue(h) ==
    /\ last' = Call("update_value", h, -1, update_value(h))
    /\ heap' = try_update_value_heap(h)
    /\ ghost' = GhostWrite(h, incr(ghost[Key(h)].val))
    /\ UNCHANGED <<stack, consts, nightly, alive, current, slots, free, owner, props, handles>>

TrySetValue(h, value) ==
    /\ last' = Call("try_set_value", h, value, Ret(try_set_value(h, value)))
    /\ heap' = try_set_value_heap(h, value)
    /\ ghost' = GhostWrite(h, value)
    /\ UNCHANGED <<stack, consts, nightly, alive, current, slots, free, owner, props, handles>>

SetValue(h, value) ==
    /\ last' = Call("set_value", h, value, Ret(set_value(h, value)))
    /\ heap' = try_set_value_heap(h, value)
    /\ ghost' = GhostWrite(h, value)
    /\ UNCHANGED <<stack, consts, nightly, alive, current, slots, free, owner, props, handles>>

\* ---------------------------------------------------------- const values
\* ScopeProperty::ConstValue(id)
const_scope_property(id) == [kind |-> "ConstValue", id |-> id]

\* store_const_value::<T>(value)
StoreConstValue(T, value) ==
    /\ Stores < MaxStores
    /\ IF with_runtime
       THEN \E a \in AllocChoices :
            LET id == SlotMapInsertKey(const_values[current],
                                       const_free[current])
                h == [id |-> id, view |-> T, rt |-> current]
            IN /\ heap' = [heap EXCEPT ![a] = [ty |-> T, val |-> value,
                                                borrow |-> 0]]
               /\ const_values' = [const_values EXCEPT ![current] =
                                     SlotMapInsert(@, const_free[current], a)]
               /\ const_free' = [const_free EXCEPT ![current] =
                                     IF @ = <<>> THEN @ ELSE Tail(@)]
               /\ props' = push_scope_property(const_scope_property(id))
               /\ const_handles' = const_handles \cup {h}
               /\ const_rcs' = const_rcs
               /\ last' = Call("store_const_value", h, value, Ret(Unit))
       ELSE /\ last' = Call("store_const_value", NoHandle, value, Ret(Panic(
                          "store_value failed to find the current runtime")))
            /\ UNCHANGED <<heap, consts, props>>
    /\ UNCHANGED <<stack, nightly, alive, current, slots, free, owner, handles,
                   ghost>>

\* (an Rc that does not count: the value goes when its slot goes)
const_kept_weak == {}

\* the values an Rc in the caller's hands keeps alive
const_kept == {rc.cell : rc \in const_rcs}

\* ConstValue::try_get_value: the Rc of the slot, downcast to T
const_try_get_value(h) ==
    IF ~with_runtime THEN None
    ELSE LET value == SlotMapGet(const_values[current], h.id) IN
         IF value = NoAddr THEN None
         ELSE IF heap[value].ty # h.view THEN None
         ELSE Some(heap[value].val)

ConstTryGetValue(h) ==
    /\ last' = Call("const_try_get_value", h, -1, Ret(const_try_get_value(h)))
    /\ UNCHANGED <<stack, consts, nightly, alive, current, slots, free, heap,
                   owner, props, handles, ghost>>

\* ConstValue::dispose
ConstDispose(h) ==
    /\ const_values' = IF with_runtime
                       THEN [const_values EXCEPT ![current] =
                               SlotMapRemove(@, h.id)]
                       ELSE const_values
    /\ const_free' = IF with_runtime
                     THEN [const_free EXCEPT ![current] =
                             SlotMapRemoveFree(const_values[current], @, h.id)]
                     ELSE const_free
    /\ heap' = IF with_runtime
               THEN FreeCells(heap, Dropped(const_values[current],
                                            const_values'[current])
                                    \ const_kept)
               ELSE heap
    /\ last' = Call("const_dispose", h, -1, Ret(Unit))
    /\ UNCHANGED <<stack, const_handles, const_rcs, nightly, alive, current,
                   slots, free, owner, props, handles, ghost>>

\* ConstValue::get_value
const_get_value(h) ==
    IF const_try_get_value(h) = None
    THEN Panic("could not get const value")
    ELSE const_try_get_value(h)

\* get_value hands the caller an Rc of the slot's value, and the caller keeps it
ConstGetValue(h) ==
    /\ last' = Call("const_get_value", h, -1, Ret(const_get_value(h)))
    /\ const_rcs' =
          IF const_get_value(h).tag = "Some"
          THEN const_rcs \cup
                 {[cell |-> SlotMapGet(const_values[current], h.id),
                   v |-> const_get_value(h).v]}
          ELSE const_rcs
    /\ UNCHANGED <<stack, const_values, const_free, const_handles, nightly,
                   alive, current, slots, free, heap, owner, props, handles,
                   ghost>>

\* ConstValue::try_with_value: f (a clone) is given &T of the slot's Rc
const_try_with_value(h) ==
    IF ~with_runtime THEN None
    ELSE LET value == SlotMapGet(const_values[current], h.id) IN
         IF value = NoAddr THEN None
         ELSE IF heap[value].ty # h.view THEN None
         ELSE Some(clone(heap[value].val))

ConstTryWithValue(h) ==
    /\ last' = Call("const_try_with_value", h, -1,
                    Ret(const_try_with_value(h)))
    /\ UNCHANGED <<stack, consts, nightly, alive, current, slots, free, heap,
                   owner, props, handles, ghost>>

\* the caller drops an Rc it got from get_value: the value goes with the
\* last Rc
ConstDropRc(rc) ==
    /\ const_rcs' = const_rcs \ {rc}
    /\ heap' = IF \E r \in RuntimeIds : \E i \in DOMAIN const_values[r] :
                    const_values[r][i].value = rc.cell
               THEN heap
               ELSE FreeCells(heap, {rc.cell})
    /\ last' = Call("drop_rc", NoHandle, rc.v, Ret(Unit))
    /\ UNCHANGED <<stack, const_values, const_free, const_handles, nightly,
                   alive, current, slots, free, owner, props, handles, ghost>>

\* PartialEq for StoredValue: self.id == other.id
eq(h1, h2) == h1.id = h2.id

\* Hash for StoredValue: what is fed to the Hasher, Runtime::current() and
\* then self.id
hash(h) == <<current, h.id>>

EqHandles(h1, h2) ==
    /\ last' = Call("eq", h1, h2, Ret(Some(eq(h1, h2))))
    /\ UNCHANGED <<stack, consts, nightly, alive, current, slots, free, heap,
                   owner, props, handles, ghost>>

HashHandle(h) ==
    /\ last' = Call("hash", h, -1, Ret(Some(hash(h))))
    /\ UNCHANGED <<stack, consts, nightly, alive, current, slots, free, heap,
                   owner, props, handles, ghost>>

\* a panic is travelling up through the running closures
Unwinding == stack # <<>> /\ last.res.tag = "panic"

\* the cells an Rc of a running call keeps alive: the stable get_inner
\* returns a clone of the Rc, the nightly one a bare reference
Kept == (IF nightly THEN {} ELSE {stack[i].cell : i \in DOMAIN stack})
        \cup const_kept

\* the running calls once the cells `freed` are gone: their references dangle
RECURSIVE Dangle(_, _)
Dangle(st, freed) ==
    IF st = <<>> THEN <<>>
    ELSE <<[Head(st) EXCEPT !.dangling = @ \/ Head(st).cell \in freed]>>
           \o Dangle(Tail(st), freed)

\* some slot map still holds the cell's Rc
Referenced(cell) ==
    \E r \in RuntimeIds :
       \/ \E i \in DOMAIN slots[r] : slots[r][i].value = cell
       \/ \E i \in DOMAIN const_values[r] : const_values[r][i].value = cell

\* the call's Rc clone is dropped (stable): the cell goes with the last Rc
DropRc(hp, f, rest) ==
    IF /\ ~nightly
       /\ ~Referenced(f.cell)
       /\ \A i \in DOMAIN rest : rest[i].cell # f.cell
    THEN FreeCells(hp, {f.cell})
    ELSE hp

\* a guard on a freed cell is dropped and the closure's writes went to freed
\* memory (undefined behaviour): nothing visible happens, or whatever cell
\* has the address now takes the write and the change of the borrow flag
DanglingDrop(hp, f, lands) ==
    IF hp[f.cell] = NoCell \/ ~lands THEN hp
    ELSE IF f.op = "update_value"
         THEN [hp EXCEPT ![f.cell].val = incr(@), ![f.cell].borrow = @ + 1]
         ELSE [hp EXCEPT ![f.cell].borrow = @ - 1]

\* update_value(f) with an f that makes calls of its own: the call borrows the
\* cell mutably and f starts
BeginUpdate(h) ==
    /\ ~Unwinding
    /\ Len(stack) < MaxDepth
    /\ update_value(h).called
    /\ heap' = [heap EXCEPT ![SlotMapGet(stored_values, h.id)].borrow = -1]
    /\ stack' = <<[op |-> "update_value", h |-> h,
                   cell |-> SlotMapGet(stored_values, h.id),
                   dangling |-> FALSE]>> \o stack
    /\ last' = Call("update_value: f starts", h, -1, Ret(Unit))
    /\ UNCHANGED <<consts, nightly, alive, current, slots, free, owner, props,
                   handles, ghost>>

\* f increments the payload and returns; the RefMut is dropped
EndUpdate ==
    /\ stack # <<>>
    /\ ~Unwinding
    /\ Head(stack).op = "update_value"
    /\ LET f == Head(stack) IN
       IF f.dangling
       THEN \E lands \in BOOLEAN, v \in Vals :
              /\ heap' = DanglingDrop(heap, f, lands)
              /\ last' = Call("update_value", f.h, -1,
                              [res |-> Some(v), called |-> TRUE])
              /\ ghost' = ghost
       ELSE /\ heap' = DropRc([heap EXCEPT ![f.cell].val = incr(@),
                                           ![f.cell].borrow = 0],
                              f, Tail(stack))
            /\ last' = Call("update_value", f.h, -1,
                            [res |-> Some(incr(heap[f.cell].val)),
                             called |-> TRUE])
            /\ ghost' = IF Expected(f.h) /\ current = f.h.rt
                        THEN [ghost EXCEPT ![Key(f.h)].val = incr(@)]
                        ELSE ghost
    /\ stack' = Tail(stack)
    /\ UNCHANGED <<consts, nightly, alive, current, slots, free, owner, props,
                   handles>>

\* with_value(f) with an f that makes calls of its own: the call borrows the
\* cell and f starts
BeginWith(h) ==
    /\ ~Unwinding
    /\ Len(stack) < MaxDepth
    /\ with_value(h).called
    /\ heap' = [heap EXCEPT ![SlotMapGet(stored_values, h.id)].borrow = @ + 1]
    /\ stack' = <<[op |-> "with_value", h |-> h,
                   cell |-> SlotMapGet(stored_values, h.id),
                   dangling |-> FALSE]>> \o stack
    /\ last' = Call("with_value: f starts", h, -1, Ret(Unit))
    /\ UNCHANGED <<consts, nightly, alive, current, slots, free, owner, props,
                   handles, ghost>>

\* (a with_value that returns and leaves its Ref behind)
EndWith_keeps_guard ==
    /\ stack # <<>>
    /\ ~Unwinding
    /\ Head(stack).op = "with_value"
    /\ last' = Call("with_value", Head(stack).h, -1,
                    [res |-> Some(clone(heap[Head(stack).cell].val)),
                     called |-> TRUE])
    /\ stack' = Tail(stack)
    /\ UNCHANGED <<consts, nightly, alive, current, slots, free, heap, owner,
                   props, handles, ghost>>

\* f returns a clone of the payload; the Ref is dropped
EndWith ==
    /\ stack # <<>>
    /\ ~Unwinding
    /\ Head(stack).op = "with_value"
    /\ LET f == Head(stack) IN
       IF f.dangling
       THEN \E lands \in BOOLEAN, v \in Vals :
              /\ heap' = DanglingDrop(heap, f, lands)
              /\ last' = Call("with_value", f.h, -1,
                              [res |-> Some(v), called |-> TRUE])
       ELSE /\ heap' = DropRc([heap EXCEPT ![f.cell].borrow = @ - 1],
                              f, Tail(stack))
            /\ last' = Call("with_value", f.h, -1,
                            [res |-> Some(clone(heap[f.cell].val)),
                             called |-> TRUE])
    /\ stack' = Tail(stack)
    /\ UNCHANGED <<consts, nightly, alive, current, slots, free, owner, props,
                   handles, ghost>>

\* a panic inside f unwinds the innermost running call: its guard is dropped
\* without f having returned, and the call panics in turn
Unwind ==
    /\ Unwinding
    /\ LET f == Head(stack) IN
       IF f.dangling
       THEN \E lands \in BOOLEAN : heap' = DanglingDrop(heap, f, lands)
       ELSE heap' = DropRc([heap EXCEPT ![f.cell].borrow =
                              IF f.op = "update_value" THEN 0 ELSE @ - 1],
                           f, Tail(stack))
    /\ stack' = Tail(stack)
    /\ last' = Call("unwind", Head(stack).h, -1, Ret(last.res))
    /\ UNCHANGED <<consts, nightly, alive, current, slots, free, owner, props,
                   handles, ghost>>

\* (a dispose that removes nothing)
dispose_no_remove(h) == slots

\* (a dispose that empties whatever slot sits at the key's index)
dispose_by_index(h) ==
    IF with_runtime /\ h.id.idx \in DOMAIN stored_values
    THEN [slots EXCEPT ![current][h.id.idx] =
            [version |-> IF @.value # NoAddr THEN @.version + 1 ELSE @.version,
             value |-> NoAddr]]
    ELSE slots

\* StoredValue::dispose: the slots afterwards
dispose(h) ==
    IF with_runtime
    THEN [slots EXCEPT ![current] = SlotMapRemove(@, h.id)]
    ELSE slots

Dispose(h) ==
    /\ slots' = dispose(h)
    /\ free' = IF with_runtime
               THEN [free EXCEPT ![current] =
                       SlotMapRemoveFree(stored_values, @, h.id)]
               ELSE free
    /\ LET gone == IF with_runtime
                   THEN Dropped(stored_values, slots'[current]) \ Kept
                   ELSE {}
       IN /\ heap' = FreeCells(heap, gone)
          /\ stack' = Dangle(stack, gone)
    /\ ghost' = [ghost EXCEPT ![Key(h)].disposed = TRUE, ![Key(h)].val = 0]
    /\ last' = Call("dispose", h, -1, Ret(Unit))
    /\ UNCHANGED <<consts, nightly, alive, current, owner, props, handles>>

\* Clone for StoredValue: *self, a bitwise copy of id, ty and inner
CloneHandle(h) ==
    /\ ghost[Key(h)].copies < MaxCopies
    /\ ghost' = [ghost EXCEPT ![Key(h)].copies = @ + 1]
    /\ last' = Call("clone", h, -1, Ret(Some(h)))
    /\ UNCHANGED <<stack, consts, nightly, alive, current, slots, free, heap,
                   owner, props, handles>>

\* the handles the caller is left with when one copy of h goes out of scope
Held(h) ==
    IF ghost[Key(h)].copies = 1
    THEN {h2 \in handles : Key(h2) # Key(h)}
    ELSE handles

\* (a handle that owns its slot: the slot goes with the last copy)
DropHandle_owning(h) ==
    /\ ghost' = [ghost EXCEPT ![Key(h)].copies = @ - 1]
    /\ handles' = Held(h)
    /\ slots' = IF ghost[Key(h)].copies = 1 THEN dispose(h) ELSE slots
    /\ last' = Call("drop", h, -1, Ret(Unit))
    /\ UNCHANGED <<stack, consts, nightly, alive, current, free, heap, owner,
                   props>>

\* a copy of the handle goes out of scope: StoredValue is Copy, so it has no
\* destructor and holds no Rc (id, TypeId and a NonNull, or PhantomData)
DropHandle(h) ==
    /\ ghost' = [ghost EXCEPT ![Key(h)].copies = @ - 1]
    /\ handles' = Held(h)
    /\ last' = Call("drop", h, -1, Ret(Unit))
    /\ UNCHANGED <<stack, consts, nightly, alive, current, slots, free, heap,
                   owner, props>>

\* (a cast that loses the cell's address)
downcast_no_inner(h, U) ==
    IF U = h.ty
    THEN Some([id |-> h.id, inner |-> NoAddr, ty |-> h.ty, view |-> U,
               rt |-> h.rt])
    ELSE None

\* (a cast that never compares the TypeId)
downcast_unchecked(h, U) ==
    Some([id |-> h.id, inner |-> h.inner, ty |-> h.ty, view |-> U,
          rt |-> h.rt])

\* StoredValue::downcast::<U> (nightly): the handle's TypeId against U's
downcast(h, U) ==
    IF U = h.ty
    THEN Some([id |-> h.id, inner |-> h.inner, ty |-> h.ty, view |-> U,
               rt |-> h.rt])
    ELSE None

Downcast(h, U) ==
    /\ nightly
    /\ handles' = IF downcast(h, U) = None THEN handles
                  ELSE handles \cup {downcast(h, U).v}
    /\ last' = Call("downcast", h, U, Ret(downcast(h, U)))
    /\ UNCHANGED <<stack, consts, nightly, alive, current, slots, free, heap,
                   owner, props, ghost>>

\* CoerceUnsized: StoredValue<T> as StoredValue<[T]> or StoredValue<dyn Trait>
CoerceUnsized(h) == [h EXCEPT !.view = Unsized]

Coerce(h) ==
    /\ nightly
    /\ h.view # Unsized
    /\ handles' = handles \cup {CoerceUnsized(h)}
    /\ last' = Call("coerce", h, -1, Ret(Some(CoerceUnsized(h))))
    /\ UNCHANGED <<stack, consts, nightly, alive, current, slots, free, heap,
                   owner, props, ghost>>

\* the scope graph makes another scope the active one
SetOwner(s) ==
    /\ with_runtime
    /\ owner[current] # s
    /\ owner' = [owner EXCEPT ![current] = s]
    /\ last' = Call("set_owner", NoHandle, -1, Ret(Unit))
    /\ UNCHANGED <<stack, consts, nightly, alive, current, slots, free, heap, props, handles,
                   ghost>>

\* the scope graph tears a scope down: every token registered to it is
\* cleaned up (stored_values.remove(id)) and the list is emptied
TeardownScope(s) ==
    /\ with_runtime
    /\ slots' = [slots EXCEPT ![current] =
                   cleanup_slots(@, TokensOf(props[current][s], "StoredValue"))]
    /\ free' = [free EXCEPT ![current] =
                   cleanup_free(stored_values, @,
                                TokensOf(props[current][s], "StoredValue"))]
    /\ const_values' = [const_values EXCEPT ![current] =
                   cleanup_slots(@, TokensOf(props[current][s], "ConstValue"))]
    /\ const_free' = [const_free EXCEPT ![current] =
                   cleanup_free(const_values[current], @,
                                TokensOf(props[current][s], "ConstValue"))]
    /\ LET gone == ( Dropped(stored_values, slots'[current])
                     \cup Dropped(const_values[current],
                                  const_values'[current]) ) \ Kept
       IN /\ heap' = FreeCells(heap, gone)
          /\ stack' = Dangle(stack, gone)
    /\ props' = [props EXCEPT ![current][s] = <<>>]
    /\ ghost' = [k \in DOMAIN ghost |->
                   IF k[1] = current /\ ghost[k].scope = s
                   THEN [ghost[k] EXCEPT !.torn = TRUE, !.val = 0]
                   ELSE ghost[k]]
    /\ last' = Call("teardown", [scope |-> s], -1, Ret(Unit))
    /\ UNCHANGED <<const_handles, const_rcs, nightly, alive, current, owner,
                   handles>>

NoLast == Call("none", NoHandle, -1, Ret(Unit))

Init ==
    /\ nightly \in BOOLEAN
    /\ alive = {1}
    /\ current = 1
    /\ slots = [r \in RuntimeIds |-> <<>>]
    /\ free = [r \in RuntimeIds |-> <<>>]
    /\ heap = [a \in Addrs |-> NoCell]
    /\ owner = [r \in RuntimeIds |-> "A"]
    /\ props = [r \in RuntimeIds |-> [s \in Scopes |-> <<>>]]
    /\ handles = {}
    /\ ghost = <<>>
    /\ last = NoLast
    /\ stack = <<>>
    /\ const_values = [r \in RuntimeIds |-> <<>>]
    /\ const_free = [r \in RuntimeIds |-> <<>>]
    /\ const_handles = {}
    /\ const_rcs = {}

\* RuntimeId::dispose: the runtime leaves the registry with everything it
\* owns; Runtime::current() keeps naming it
DisposeRuntime ==
    /\ with_runtime
    /\ alive' = alive \ {current}
    /\ slots' = [slots EXCEPT ![current] = <<>>]
    /\ free' = [free EXCEPT ![current] = <<>>]
    /\ const_values' = [const_values EXCEPT ![current] = <<>>]
    /\ const_free' = [const_free EXCEPT ![current] = <<>>]
    /\ LET gone == ( {stored_values[i].value : i \in DOMAIN stored_values}
                     \cup {const_values[current][i].value :
                              i \in DOMAIN const_values[current]} )
                   \ ({NoAddr} \cup Kept)
       IN /\ heap' = FreeCells(heap, gone)
          /\ stack' = Dangle(stack, gone)
    /\ props' = [props EXCEPT ![current] = [s \in Scopes |-> <<>>]]
    /\ last' = Call("dispose_runtime", NoHandle, -1, Ret(Unit))
    /\ UNCHANGED <<const_handles, const_rcs, nightly, current, owner, handles,
                   ghost>>

\* create_runtime: a new runtime joins the registry and becomes the current
\* one.  An id is not issued twice to runtimes that issued handles
CreateRuntime(r) ==
    /\ r \notin alive
    /\ \A k \in DOMAIN ghost : k[1] # r
    /\ alive' = alive \cup {r}
    /\ current' = r
    /\ last' = Call("create_runtime", NoHandle, r, Ret(Unit))
    /\ UNCHANGED <<stack, consts, nightly, slots, free, heap, owner, props,
                   handles, ghost>>

\* another runtime of the registry becomes the current one
SetRuntime(r) ==
    /\ r \in alive
    /\ r # current
    /\ current' = r
    /\ last' = Call("set_runtime", NoHandle, r, Ret(Unit))
    /\ UNCHANGED <<stack, consts, nightly, alive, slots, free, heap, owner,
                   props, handles, ghost>>

\* one runtime, one scope: values are stored, read, written and disposed
Next ==
    \/ \E v \in Vals : StoreValue("i32", v)
    \/ \E h \in handles : TryWithValue(h)
    \/ \E h \in handles : WithValue(h)
    \/ \E h \in handles : TryGetValue(h)
    \/ \E h \in handles : GetValue(h)
    \/ \E h \in handles : TryUpdateValue(h)
    \/ \E h \in handles : UpdateValue(h)
    \/ \E h \in handles, v \in Vals : TrySetValue(h, v)
    \/ \E h \in handles, v \in Vals : SetValue(h, v)
    \/ \E h \in handles : Dispose(h)
    \/ \E s \in Scopes : TeardownScope(s)
    \/ DisposeRuntime

Spec == Init /\ [][Next]_vars

\* one runtime, one scope: every read of the handle, between the stores,
\* writes and disposals that give the reads something to disturb
NextReads ==
    \/ \E v \in Vals : StoreValue("i32", v)
    \/ \E h \in handles : TryWithValue(h)
    \/ \E h \in handles : WithValue(h)
    \/ \E h \in handles : TryGetValue(h)
    \/ \E h \in handles : GetValue(h)
    \/ \E h \in handles : TryGetOwned(h)
    \/ \E h \in handles : GetOwned(h)
    \/ \E h \in handles : SetValue(h, 1)
    \/ \E h \in handles : Dispose(h)
    \/ \E s \in Scopes : TeardownScope(s)
    \/ DisposeRuntime

SpecReads == Init /\ [][NextReads]_vars

\* one runtime, values stored under one scope: the handles are copied and the
\* copies dropped while the slots are read and disposed and either scope is
\* torn down
NextCopies ==
    \/ StoreValue("i32", 0)
    \/ \E h \in handles : CloneHandle(h)
    \/ \E h \in handles : DropHandle(h)
    \/ \E h \in handles : TryWithValue(h)
    \/ \E h \in handles : Dispose(h)
    \/ \E s \in Scopes : TeardownScope(s)
    \/ DisposeRuntime

SpecCopies == Init /\ [][NextCopies]_vars

\* one runtime, sibling scopes: values are stored under either scope (0 under
\* A, 1 under B), read and disposed, and the scopes are torn down
NextScope ==
    \/ StoreValue("i32", IF owner[current] = "A" THEN 0 ELSE 1)
    \/ \E h \in handles : TryWithValue(h)
    \/ \E h \in handles : Dispose(h)
    \/ \E s \in Scopes : SetOwner(s)
    \/ \E s \in Scopes : TeardownScope(s)

SpecScope == Init /\ [][NextScope]_vars

\* the nightly build: values of either type are stored, their handles are
\* coerced to an unsized type and cast back, and used
InitCast == Init /\ nightly

NextCast ==
    \/ \E T \in Types : StoreValue(T, 0)
    \/ \E h \in handles : Coerce(h)
    \/ \E h \in handles, U \in Types : Downcast(h, U)
    \/ \E h \in handles : TryWithValue(h)
    \/ \E h \in handles : TryUpdateValue(h)
    \/ \E h \in handles : h.view # Unsized /\ TrySetValue(h, 1)
    \/ \E h \in handles : Dispose(h)

SpecCast == InitCast /\ [][NextCast]_vars

\* both arenas of one runtime: stored values and const values are stored,
\* read and disposed, until the runtime is disposed and after
NextConst ==
    \/ \E v \in Vals : StoreValue("i32", v)
    \/ \E v \in Vals : StoreConstValue("i32", v)
    \/ \E h \in handles : TryWithValue(h)
    \/ \E h \in const_handles : ConstTryGetValue(h)
    \/ \E h \in handles : Dispose(h)
    \/ \E h \in const_handles : ConstDispose(h)
    \/ DisposeRuntime

SpecConst == Init /\ [][NextConst]_vars

\* const values next to stored values: const values are stored, read, handed
\* out as Rc and disposed while stored values are stored and set
NextConstRc ==
    \/ \E v \in Vals : StoreConstValue("i32", v)
    \/ StoreValue("i32", 0)
    \/ \E h \in handles : SetValue(h, 1)
    \/ \E h \in const_handles : ConstTryGetValue(h)
    \/ \E h \in const_handles : ConstGetValue(h)
    \/ \E h \in const_handles : ConstTryWithValue(h)
    \/ \E h \in const_handles : ConstDispose(h)
    \/ \E rc \in const_rcs : ConstDropRc(rc)

SpecConstRc == Init /\ [][NextConstRc]_vars

\* two runtimes: each stores values, either is made the current one, and
\* handles are used, compared and hashed whichever runtime is current
NextRuntimes ==
    \/ \E r \in RuntimeIds : CreateRuntime(r)
    \/ \E r \in RuntimeIds : SetRuntime(r)
    \/ DisposeRuntime
    \/ StoreValue("i32", 0)
    \/ \E h \in handles : TryWithValue(h)
    \/ \E h \in handles : TryUpdateValue(h)
    \/ \E h \in handles : TrySetValue(h, 1)
    \/ \E h \in handles : Dispose(h)
    \/ \E h1, h2 \in handles : EqHandles(h1, h2)
    \/ \E h \in handles : HashHandle(h)

SpecRuntimes == Init /\ [][NextRuntimes]_vars

\* two runtimes, two payload types: the first runtime stores i32 values, the
\* second u8 values; the handles are coerced and cast back (nightly), and
\* values are set through every handle whichever runtime is current
NextTypes ==
    \/ \E r \in RuntimeIds : CreateRuntime(r)
    \/ StoreValue(IF current = 1 THEN "i32" ELSE "u8", 0)
    \/ \E h \in handles : Coerce(h)
    \/ \E h \in handles, U \in Types : Downcast(h, U)
    \/ \E h \in handles : h.view # Unsized /\ TrySetValue(h, 1)
    \/ \E h \in handles : Dispose(h)

SpecTypes == Init /\ [][NextTypes]_vars

\* closures that call back into the arena: update_value's closure runs while
\* other calls are made, on the same slot or another
NextNested ==
    \/ ~Unwinding /\ StoreValue("i32", 0)
    \/ \E h \in handles : ~Unwinding /\ Coerce(h)
    \/ \E h \in handles : ~Unwinding /\ Downcast(h, "i32")
    \/ \E h \in handles : BeginUpdate(h)
    \/ EndUpdate
    \/ Unwind
    \/ \E h \in handles : ~Unwinding /\ UpdateValue(h)
    \/ \E h \in handles : ~Unwinding /\ WithValue(h)
    \/ \E h \in handles, v \in Vals :
          ~Unwinding /\ h.view # Unsized /\ SetValue(h, v)

SpecNested == Init /\ [][NextNested]_vars

\* closures of with_value and update_value that call back into the arena, one
\* inside another, on the same slot or another
NextGuards ==
    \/ ~Unwinding /\ StoreValue("i32", 0)
    \/ \E h \in handles : BeginUpdate(h)
    \/ \E h \in handles : BeginWith(h)
    \/ EndUpdate
    \/ EndWith
    \/ Unwind
    \/ \E h \in handles : ~Unwinding /\ TryWithValue(h)
    \/ \E h \in handles : ~Unwinding /\ WithValue(h)
    \/ \E h \in handles : ~Unwinding /\ TryUpdateValue(h)
    \/ \E h \in handles : ~Unwinding /\ UpdateValue(h)
    \/ \E h \in handles : ~Unwinding /\ TrySetValue(h, 1)
    \/ \E h \in handles : ~Unwinding /\ SetValue(h, 1)

SpecGuards == Init /\ [][NextGuards]_vars

\* closures of with_value and update_value that dispose slots, their own
\* included, by dispose() or by tearing the scope down, and store new values
NextInside ==
    \/ ~Unwinding /\ StoreValue("i32", 0)
    \/ \E h \in handles : BeginUpdate(h)
    \/ \E h \in handles : BeginWith(h)
    \/ EndUpdate
    \/ EndWith
    \/ Unwind
    \/ \E h \in handles : ~Unwinding /\ Dispose(h)
    \/ \E s \in Scopes : ~Unwinding /\ TeardownScope(s)
    \/ \E h \in handles : ~Unwinding /\ TryWithValue(h)

SpecInside == Init /\ [][NextInside]_vars

\* ------------------------------------------------------------------- claims
Missing == [res |-> None, called |-> FALSE]
ReadOps == {"get_value", "with_value", "try_get_value", "try_with_value"}
IsHandle(h) == h \in handles

\* the slots, free list and cells of every runtime
Arena == <<slots, free, heap>>

\* C1: after store_value(v), get_value and with_value(identity) on the
\* returned handle yield v, and after a read that yielded a value the slot is
\* still live: a second read yields the same value
C1_RoundTrip ==
    /\ (last.op = "store_value" /\ IsHandle(last.h)) =>
          /\ get_value(last.h).res = Some(last.arg)
          /\ with_value(last.h).res = Some(last.arg)
    /\ (last.op \in ReadOps /\ last.res.tag = "Some") =>
          /\ get_value(last.h).res = last.res
          /\ with_value(last.h).res = last.res
          /\ get_inner(last.h) \in Addrs

C1_Witness ==
    /\ last.op = "get_value"
    /\ last.res = Some(1)
    /\ try_get_value(last.h).res = Some(1)

\* C2: a read through a live handle returns the payload of the most recent
\* successful set_value or update_value on the slot, or the stored value when
\* there was none; set_value(v) then get_value() yields v
C2_Replacement ==
    /\ \A h \in handles :
          (Expected(h) /\ current = h.rt) =>
              /\ try_get_value(h) = [res |-> Some(ghost[Key(h)].val),
                                     called |-> TRUE]
              /\ get_value(h).res = Some(ghost[Key(h)].val)
    /\ (last.op \in {"set_value", "try_set_value"} /\ Expected(last.h)) =>
          get_value(last.h).res = Some(last.arg)

C2_Witness ==
    /\ last.op = "set_value"
    /\ last.arg = 1
    /\ Expected(last.h)
    /\ get_value(last.h).res = Some(1)
    /\ \E h \in handles : h # last.h /\ Expected(h) /\ ghost[Key(h)].val = 0

\* C3: once dispose() was called on a handle, try_get_value, try_with_value
\* and try_update_value on it return None in every later state and never
\* call the closure
C3_DisposalFinality ==
    /\ \A h \in handles :
          ghost[Key(h)].disposed =>
              /\ try_get_value(h) = Missing
              /\ try_with_value(h) = Missing
              /\ try_update_value(h) = Missing
    /\ ( /\ last.op \in {"try_get_value", "try_with_value", "try_update_value"}
         /\ ghost[Key(last.h)].disposed ) =>
          (last.res = None /\ ~last.called)

C3_Witness ==
    /\ last.op = "try_update_value"
    /\ ghost[Key(last.h)].disposed
    /\ \E h \in handles : h.id.idx = last.h.id.idx /\ get_inner(h) \in Addrs

\* C4: once dispose() was called on a handle, every strict operation on it
\* panics: get_value, with_value, update_value and set_value
C4_StrictFails ==
    ( /\ last.op \in {"get_value", "with_value", "update_value", "set_value"}
      /\ ghost[Key(last.h)].disposed ) =>
        last.res.tag = "panic"

\* C5: try_set_value(v) returns None and replaces the payload with v when the
\* slot is present; when the slot is missing it returns Some(v) and leaves
\* the arena unchanged
C5_TrySetValue ==
    [][ \A h \in handles :
          (last'.op = "try_set_value" /\ last'.h = h) =>
             IF Expected(h)
             THEN /\ last'.res = None
                  /\ try_get_value(h)'.res = Some(last'.arg)
             ELSE /\ last'.res = Some(last'.arg)
                  /\ Arena' = Arena ]_vars

\* a handle whose slot is gone while its index holds a newer slot
Stale(h) ==
    /\ (ghost[Key(h)].disposed \/ ghost[Key(h)].torn)
    /\ \E h2 \in handles : /\ h2.id.idx = h.id.idx
                           /\ h2.id # h.id
                           /\ Expected(h2)

\* C6: when a slot was disposed and a later store_value reuses its index,
\* every operation through the old handle reports missing and neither reads
\* nor modifies the new payload
C6_NoAlias ==
    \A h \in handles :
       Stale(h) =>
          /\ try_with_value(h) = Missing
          /\ try_get_value(h) = Missing
          /\ try_update_value(h) = Missing
          /\ try_update_value_heap(h) = heap
          /\ \A v \in Vals : /\ try_set_value(h, v) = Some(v)
                             /\ try_set_value_heap(h, v) = heap

C6_Witness ==
    /\ last.op = "try_set_value"
    /\ Stale(last.h)
    /\ last.res = Some(1)
    /\ \E h2 \in handles : /\ h2.id.idx = last.h.id.idx
                           /\ try_get_value(h2).res = Some(0)

\* C7: every store_value returns a handle whose (index, version) differs
\* from the id of every handle issued before, live or disposed
C7_FreshId ==
    [][ (last'.op = "store_value" /\ last'.h \in handles') =>
          last'.h.id \notin {h.id : h \in handles} ]_vars

C7_Witness ==
    /\ last.op = "store_value"
    /\ \E h \in handles : /\ h.id.idx = last.h.id.idx
                          /\ h.id.version < last.h.id.version

\* C8: a second dispose() on the same handle leaves the arena as the first
\* left it, does not fail, and does not remove a slot stored in between that
\* reuses the index
C8_DisposeIdempotent ==
    [][ (last'.op = "dispose" /\ ghost[Key(last'.h)].disposed) =>
          /\ Arena' = Arena
          /\ props' = props
          /\ last'.res = Unit ]_vars

C8_Witness ==
    /\ last.op = "dispose"
    /\ \E h2 \in handles : /\ h2.id.idx = last.h.id.idx
                           /\ h2.id # last.h.id
                           /\ try_get_value(h2).res = Some(1)

\* C9: tearing down a scope removes only slots stored while it was active:
\* every slot registered to a sibling scope stays live with its payload
C9_ScopeCascade ==
    [][ last'.op = "teardown" =>
          \A h \in handles :
             (Expected(h) /\ ghost[Key(h)].scope # last'.h.scope) =>
                 /\ try_with_value(h).res.tag = "Some"
                 /\ try_with_value(h)' = try_with_value(h) ]_vars

C9_Witness ==
    /\ last.op = "teardown"
    /\ \E h1, h2 \in handles :
          /\ ghost[Key(h1)].scope = last.h.scope
          /\ ghost[Key(h1)].torn
          /\ ~ghost[Key(h1)].disposed
          /\ try_with_value(h1) = Missing
          /\ ghost[Key(h2)].scope # last.h.scope
          /\ try_with_value(h2).res = Some(1)

RECURSIVE TokenCount(_, _)
TokenCount(tokens, id) ==
    IF tokens = <<>> THEN 0
    ELSE (IF Head(tokens).id = id THEN 1 ELSE 0) + TokenCount(Tail(tokens), id)

\* C10: each store_value registers exactly one disposal token for the new
\* slot, with the scope active at store time, and once that scope is torn
\* down every handle created under it observes missing
C10_OneToken ==
    \A h \in handles :
       /\ ~ghost[Key(h)].torn =>
             \A s \in Scopes :
                TokenCount(props[h.rt][s], h.id) =
                   (IF s = ghost[Key(h)].scope THEN 1 ELSE 0)
       /\ ghost[Key(h)].torn =>
             /\ try_with_value(h) = Missing
             /\ try_update_value(h) = Missing

C10_Witness ==
    \E h1, h2 \in handles :
       /\ ghost[Key(h1)].torn
       /\ ~ghost[Key(h1)].disposed
       /\ ~ghost[Key(h2)].torn
       /\ h2.id.idx = h1.id.idx
       /\ ghost[Key(h2)].scope # ghost[Key(h1)].scope
       /\ TokenCount(props[h2.rt][ghost[Key(h2)].scope], h2.id) = 1

\* C11: tearing down a scope after one of its slots was disposed explicitly
\* and the slot's index was reused by a store under another scope does not
\* fail and neither removes nor changes the newer slot
C11_TeardownAfterDispose ==
    [][ last'.op = "teardown" =>
          /\ last'.res = Unit
          /\ \A h1, h2 \in handles :
                ( /\ ghost[Key(h1)].disposed
                  /\ ghost[Key(h1)].scope = last'.h.scope
                  /\ TokenCount(props[h1.rt][last'.h.scope], h1.id) = 1
                  /\ h2.id.idx = h1.id.idx
                  /\ h2.id # h1.id
                  /\ Expected(h2)
                  /\ ghost[Key(h2)].scope # last'.h.scope ) =>
                    /\ try_with_value(h2).res = Some(ghost[Key(h2)].val)
                    /\ try_with_value(h2)' = try_with_value(h2)
                    /\ SlotMapGet(slots'[h2.rt], h2.id)
                          = SlotMapGet(slots[h2.rt], h2.id) ]_vars

C11_Witness ==
    /\ last.op = "teardown"
    /\ \E h1, h2 \in handles :
          /\ ghost[Key(h1)].disposed
          /\ ghost[Key(h1)].scope = last.h.scope
          /\ h2.id.idx = h1.id.idx
          /\ h2.id.version > h1.id.version
          /\ ghost[Key(h2)].scope # last.h.scope
          /\ try_with_value(h2).res = Some(1)

\* C12: a successful downcast yields a handle on the same slot: a write
\* through either the cast handle or the original is read back through the
\* other, and after a dispose through either both report missing
C12_DowncastAlias ==
    /\ \A h \in handles : \A U \in Types :
          downcast(h, U) # None =>
             LET d == downcast(h, U).v IN
             /\ d.id = h.id
             /\ try_with_value(d) = try_with_value(h)
             /\ try_update_value(d) = try_update_value(h)
             /\ try_update_value_heap(d) = try_update_value_heap(h)
             /\ Expected(h) =>
                   /\ try_with_value(d).res = Some(ghost[Key(h)].val)
                   /\ \A v \in Vals :
                         /\ try_set_value(d, v) = None
                         /\ try_with_value(h).res = Some(heap[h.inner].val)
                         /\ try_set_value_heap(d, v)[h.inner].val = v
             /\ ghost[Key(h)].disposed =>
                   /\ try_with_value(d) = Missing
                   /\ try_with_value(h) = Missing
    /\ ( \/ (last.op = "try_set_value" /\ last.res = None)
         \/ (last.op = "try_update_value" /\ last.res.tag = "Some") ) =>
          \A h \in handles :
             (Key(h) = Key(last.h) /\ Expected(h)) =>
                try_with_value(h).res =
                   (IF last.op = "try_set_value" THEN Some(last.arg)
                    ELSE last.res)

C12_Witness ==
    /\ last.op = "try_set_value"
    /\ last.arg = 1
    /\ last.res = None
    /\ downcast(last.h, last.h.ty) = Some(last.h)
    /\ \E h \in handles : /\ h.view = Unsized
                          /\ h.id = last.h.id
                          /\ downcast(h, h.ty) = Some(last.h)
                          /\ try_with_value(h).res = Some(1)

\* C13: downcast::<U>() on a handle whose payload was stored with a concrete
\* type other than U returns None, and no handle exists through which a
\* payload could be used as a type it was not stored with
C13_DowncastRejects ==
    /\ \A h \in handles : \A U \in Types :
          U # ghost[Key(h)].ty => downcast(h, U) = None
    /\ (last.op = "downcast" /\ last.arg # ghost[Key(last.h)].ty) =>
          last.res = None
    /\ \A h \in handles : h.view \in {ghost[Key(h)].ty, Unsized}

C13_Witness ==
    /\ last.op = "downcast"
    /\ last.h.view = Unsized
    /\ last.arg # ghost[Key(last.h)].ty
    /\ last.res = None
    /\ try_with_value(last.h).res.tag = "Some"

\* C14: downcast::<U>() returns a handle only when the handle's type tag is
\* U's and the cell the handle caches is the one its slot holds now, so a
\* handle whose slot was disposed gets no handle from downcast
C14_DowncastChecksLive ==
    /\ \A h \in handles : \A U \in Types :
          downcast(h, U) # None =>
             /\ U = h.ty
             /\ with_runtime
             /\ SlotMapGet(stored_values, h.id) = h.inner
    /\ (last.op = "downcast" /\ ghost[Key(last.h)].disposed) =>
          last.res = None

\* the closure of an update_value call is running on the handle's slot
InUpdate(h) ==
    /\ with_runtime
    /\ \E i \in DOMAIN stack :
          /\ stack[i].op = "update_value"
          /\ ~stack[i].dangling
          /\ stack[i].cell = SlotMapGet(stored_values, h.id)

\* C15: while the closure of update_value runs on a slot, a call of
\* update_value, set_value or with_value on that slot (the same handle, a
\* copy or a cast alias) panics, runs no closure and leaves the payload as
\* it was
C15_Reentrancy ==
    /\ \A h \in handles :
          InUpdate(h) =>
             /\ update_value(h).res.tag = "panic"
             /\ ~update_value(h).called
             /\ try_update_value_heap(h) = heap
             /\ with_value(h).res.tag = "panic"
             /\ ~with_value(h).called
             /\ h.view # Unsized =>
                   \A v \in Vals : /\ set_value(h, v).tag = "panic"
                                    /\ try_set_value_heap(h, v) = heap
    /\ ( /\ last.op \in {"update_value", "set_value", "with_value"}
         /\ InUpdate(last.h) ) =>
          (last.res.tag = "panic" /\ ~last.called)

C15_Witness ==
    /\ stack # <<>>
    /\ last.op = "set_value"
    /\ last.res.tag = "panic"
    /\ last.h # Head(stack).h
    /\ last.h.id = Head(stack).h.id
    /\ heap[Head(stack).cell].val = 0
    /\ last.arg = 1

\* C16: two handles created in different runtimes are never equal under ==,
\* even when their slot ids are the same
C16_CrossRuntimeNe ==
    /\ \A h1, h2 \in handles : h1.rt # h2.rt => ~eq(h1, h2)
    /\ (last.op = "eq" /\ last.h.rt # last.arg.rt) => last.res = Some(FALSE)

\* a handle of another runtime whose id names a live slot of the same payload
\* type in the current runtime
Foreign(h) ==
    /\ with_runtime
    /\ h.rt # current
    /\ \E h2 \in handles : /\ h2.rt = current
                           /\ h2.id = h.id
                           /\ Expected(h2)
                           /\ ghost[Key(h2)].ty = ghost[Key(h)].ty

\* C17: a handle created in runtime A, used while runtime B is current and B
\* holds a live slot with the same id and payload type, never reads, mutates
\* or replaces B's payload: every operation reports missing
C17_CrossRuntimeAccess ==
    \A h \in handles :
       Foreign(h) =>
          /\ try_with_value(h) = Missing
          /\ try_get_value(h) = Missing
          /\ try_update_value(h) = Missing
          /\ try_update_value_heap(h) = heap
          /\ try_set_value(h, 1) = Some(1)
          /\ try_set_value_heap(h, 1) = heap

\* C18: the hash of a handle is that of its owning runtime's identity and its
\* slot id: it is the same at any two times, whichever runtime is current,
\* and handles that compare equal hash equally
C18_HashStable ==
    [][ /\ \A h \in handles : /\ hash(h)' = hash(h)
                              /\ hash(h) = <<h.rt, h.id>>
        /\ \A h1, h2 \in handles : eq(h1, h2) => hash(h1) = hash(h2)
        /\ \A h \in handles :
              (last'.op = "hash" /\ last'.h = h) =>
                 last'.res = Some(<<h.rt, h.id>>) ]_vars

AccessOps == ReadOps \cup {"try_update_value", "update_value", "try_set_value",
                           "set_value"}

\* what each access operation reports for a slot that was disposed
DisposedOutcome(op, arg) ==
    CASE op \in {"try_get_value", "try_with_value", "try_update_value"} -> None
      [] op \in {"get_value", "with_value"} ->
            Panic("could not get stored value")
      [] op = "update_value" -> Panic("could not set stored value")
      [] op = "try_set_value" -> Some(arg)
      [] op = "set_value" -> Unit

\* a disposed slot, its runtime current, is reported as DisposedOutcome says
DisposedReports ==
    ( /\ last.op \in AccessOps
      /\ with_runtime
      /\ ghost[Key(last.h)].disposed ) =>
        last.res = DisposedOutcome(last.op, last.arg)

\* C19: an access operation attempted when there is no active runtime
\* reports an outcome other than the one reported for a disposed slot
C19_RuntimeGoneDistinct ==
    (last.op \in AccessOps /\ ~with_runtime) =>
        last.res # DisposedOutcome(last.op, last.arg)

\* the slots, free list and handles of the const values
ConstArena == <<const_values, const_free>>

\* C20: store_value and store_const_value return a handle to a live slot
\* holding the value whenever there is a current runtime; when there is none
\* they panic with "store_value failed to find the current runtime", create
\* no slot and register no disposal token
C20_StoreOrPanic ==
    [][ /\ \A h \in handles' :
              (last'.op = "store_value" /\ last'.h = h) =>
                 /\ with_runtime
                 /\ last'.res = Unit
                 /\ try_with_value(h)'.res = Some(last'.arg)
                 /\ SlotMapGet(stored_values, h.id) = NoAddr
        /\ \A h \in const_handles' :
              (last'.op = "store_const_value" /\ last'.h = h) =>
                 /\ with_runtime
                 /\ last'.res = Unit
                 /\ const_try_get_value(h)' = Some(last'.arg)
                 /\ SlotMapGet(const_values[current], h.id) = NoAddr
        /\ last'.op \in {"store_value", "store_const_value"} =>
              IF with_runtime
              THEN last'.h \in handles' \cup const_handles'
              ELSE /\ last'.res = Panic(
                          "store_value failed to find the current runtime")
                   /\ last'.h = NoHandle
                   /\ Arena' = Arena
                   /\ ConstArena' = ConstArena
                   /\ props' = props
                   /\ handles' = handles
                   /\ const_handles' = const_handles ]_vars

C20_Witness ==
    /\ last.op = "store_const_value"
    /\ last.res = Panic("store_value failed to find the current runtime")
    /\ ~with_runtime
    /\ const_handles # {}
    /\ \A h \in const_handles : const_try_get_value(h) = None

\* C21: updates accumulate: each update_value on a live handle returns its
\* closure's result, the increment of what all earlier updates left, and a
\* following with_value observes that accumulated payload
C21_UpdatesAccumulate ==
    [][ \A h \in handles :
          ( /\ last'.op \in {"update_value", "try_update_value"}
            /\ last'.h = h
            /\ Expected(h) ) =>
              /\ with_value(h).res = Some(ghost[Key(h)].val)
              /\ last'.res = Some(incr(ghost[Key(h)].val))
              /\ last'.called
              /\ with_value(h)'.res = last'.res
              /\ ghost'[Key(h)].val = incr(ghost[Key(h)].val) ]_vars

C21_Witness ==
    /\ last.op = "update_value"
    /\ last.res = Some(0)
    /\ with_value(last.h).res = Some(0)
    /\ \E h \in handles : h # last.h /\ with_value(h).res = Some(1)

\* C22: after the runtime that issued a handle was disposed, the handle
\* reports missing: get_value and with_value panic with "could not get
\* stored value" and the fallible reads and update return None
C22_RuntimeDisposed ==
    /\ \A h \in handles :
          h.rt \notin alive =>
             /\ try_with_value(h) = Missing
             /\ try_get_value(h) = Missing
             /\ try_update_value(h) = Missing
             /\ get_value(h).res = Panic("could not get stored value")
             /\ with_value(h).res = Panic("could not get stored value")
    /\ ( /\ last.op \in {"try_with_value", "try_get_value", "try_update_value"}
         /\ last.h.rt \notin alive ) =>
          (last.res = None /\ ~last.called)

\* the running calls that hold a write guard, or a read guard, on a cell
Writers(cell) ==
    {i \in DOMAIN stack : /\ stack[i].cell = cell
                          /\ stack[i].op = "update_value"
                          /\ ~stack[i].dangling}

Readers(cell) ==
    {i \in DOMAIN stack : /\ stack[i].cell = cell
                          /\ stack[i].op = "with_value"
                          /\ ~stack[i].dangling}

\* C23: each cell has at most one write guard held, and while a write guard
\* is held on a cell no read guard is held on it; the cell's borrow flag
\* counts exactly the guards held
C23_GuardInvariant ==
    \A cell \in Addrs :
       /\ Cardinality(Writers(cell)) <= 1
       /\ Writers(cell) # {} => Readers(cell) = {}
       /\ heap[cell] # NoCell =>
             heap[cell].borrow = (IF Writers(cell) # {} THEN -1
                                  ELSE Cardinality(Readers(cell)))

C23_Witness ==
    \E c1, c2 \in Addrs :
       /\ Cardinality(Readers(c1)) = 1
       /\ Cardinality(Writers(c2)) = 1
       /\ last.op = "try_update_value"
       /\ last.res.tag = "panic"

\* the handle's slot is live and a running call holds a write guard, or a
\* read guard, on its cell
WriteHeld(h) ==
    /\ with_runtime
    /\ SlotMapGet(stored_values, h.id) # NoAddr
    /\ Writers(SlotMapGet(stored_values, h.id)) # {}

ReadHeld(h) ==
    /\ with_runtime
    /\ SlotMapGet(stored_values, h.id) # NoAddr
    /\ Readers(SlotMapGet(stored_values, h.id)) # {}

\* C26: try_with_value, try_update_value or try_set_value called while a
\* conflicting guard is held on the same slot panics at the call: it returns
\* no empty result, runs no closure and leaves the payload alone
C26_AliasingFatal ==
    /\ \A h \in handles :
          /\ WriteHeld(h) =>
                /\ try_with_value(h).res.tag = "panic"
                /\ ~try_with_value(h).called
          /\ (WriteHeld(h) \/ ReadHeld(h)) =>
                /\ try_update_value(h).res.tag = "panic"
                /\ ~try_update_value(h).called
                /\ try_update_value_heap(h) = heap
                /\ \A v \in Vals : /\ try_set_value(h, v).tag = "panic"
                                   /\ try_set_value_heap(h, v) = heap
    /\ ( \/ last.op = "try_with_value" /\ WriteHeld(last.h)
         \/ /\ last.op \in {"try_update_value", "try_set_value"}
            /\ (WriteHeld(last.h) \/ ReadHeld(last.h)) ) =>
          (last.res.tag = "panic" /\ ~last.called)

C26_Witness ==
    /\ last.op = "try_set_value"
    /\ ReadHeld(last.h)
    /\ last.res.tag = "panic"
    /\ heap[SlotMapGet(stored_values, last.h.id)].val = 0

\* the slot of the last call is live, and the call returned normally
ReturnedNormally ==
    /\ last.op \in {"with_value", "update_value", "set_value"}
    /\ last.res.tag # "panic"
    /\ with_runtime
    /\ SlotMapGet(stored_values, last.h.id) # NoAddr

\* C27 as stated: once a with_value, update_value or set_value call has
\* returned normally no guard is held on its cell, and update_value and
\* set_value on the slot succeed
C27_NoGuardAfterReturn ==
    ReturnedNormally =>
       /\ heap[SlotMapGet(stored_values, last.h.id)].borrow = 0
       /\ update_value(last.h).called
       /\ set_value(last.h, 1) = Unit

\* C27, amended: once a with_value, update_value or set_value call has
\* returned normally the guards on its cell are those of the calls still
\* running; when none is running on the slot, update_value and set_value on
\* it succeed through any handle
C27_GuardsTransient ==
    ReturnedNormally =>
       LET cell == SlotMapGet(stored_values, last.h.id) IN
       /\ heap[cell].borrow = (IF Writers(cell) # {} THEN -1
                               ELSE Cardinality(Readers(cell)))
       /\ (Writers(cell) = {} /\ Readers(cell) = {}) =>
             \A h \in handles :
                h.id = last.h.id =>
                   /\ update_value(h).called
                   /\ update_value(h).res.tag = "Some"
                   /\ set_value(h, 1) = Unit
                   /\ try_set_value_heap(h, 1)[cell].val = 1

C27_Witness ==
    /\ last.op = "with_value"
    /\ last.res = Some(1)
    /\ last.called
    /\ stack = <<>>
    /\ update_value(last.h).res = Some(0)

\* C28: inside a with_value closure, a with_value on the same slot succeeds
\* and returns its closure's result, while update_value and set_value on the
\* same slot fail
C28_NestedReads ==
    /\ \A h \in handles :
          ReadHeld(h) =>
             /\ with_value(h).called
             /\ with_value(h).res =
                   Some(heap[SlotMapGet(stored_values, h.id)].val)
             /\ update_value(h).res.tag = "panic"
             /\ ~update_value(h).called
             /\ try_update_value_heap(h) = heap
             /\ set_value(h, 1).tag = "panic"
             /\ try_set_value_heap(h, 1) = heap
    /\ (last.op = "with_value" /\ ReadHeld(last.h)) =>
          (last.res.tag = "Some" /\ last.called)
    /\ (last.op \in {"update_value", "set_value"} /\ ReadHeld(last.h)) =>
          (last.res.tag = "panic" /\ ~last.called)

C28_Witness ==
    /\ Len(stack) = 1
    /\ last.op = "with_value"
    /\ last.called
    /\ ReadHeld(last.h)
    /\ last.h = Head(stack).h
    /\ set_value(last.h, 1).tag = "panic"

\* C24: with no guard held, every operation agrees on whether a handle's slot
\* is present: try_with_value returns Some exactly when try_update_value
\* returns Some, and exactly when try_set_value (which a handle to a sized
\* payload has) returns None
C24_PresenceAgreement ==
    \A h \in handles : \A v \in Vals :
        /\ (try_with_value(h).res.tag = "Some") <=>
              (try_update_value(h).res.tag = "Some")
        /\ h.view # Unsized =>
              ( (try_with_value(h).res.tag = "Some") <=>
                   (try_set_value(h, v) = None) )

\* the payload a handle reads, or None, and the cell its slot holds
View(h) == <<try_with_value(h).res, SlotMapGet(stored_values, h.id)>>

\* C29: set_value, try_set_value, update_value, try_update_value and dispose
\* through a handle leave every slot with another id as it was, live or not
\* and with the same payload, and two live slots never share a cell
C29_SlotIsolation ==
    [][ /\ \A h2 \in handles :
             ( /\ last'.op \in {"set_value", "try_set_value", "update_value",
                                "try_update_value", "dispose"}
               /\ last'.h.id # h2.id ) =>
                  View(h2)' = View(h2)
        /\ \A h1 \in handles' : \A h2 \in handles' :
             ( /\ h1.id # h2.id
               /\ with_runtime'
               /\ SlotMapGet(stored_values, h1.id)' # NoAddr ) =>
                  SlotMapGet(stored_values, h1.id)' #
                     SlotMapGet(stored_values, h2.id)' ]_vars

\* a write landed on one slot while another slot of the same type holds a
\* different payload
C29_Witness ==
    /\ last.op = "set_value"
    /\ try_with_value(last.h).res = Some(1)
    /\ \E h2 \in handles : /\ h2.id # last.h.id
                           /\ h2.ty = last.h.ty
                           /\ try_with_value(h2).res = Some(0)

\* the reads of a handle
PureReads == ReadOps \cup {"try_get_owned", "get_owned"}

\* C30: get_value, try_get_value, get_owned, with_value and try_with_value,
\* on a live or a missing handle, leave the live slots, every payload and
\* every scope's token list as they were
C30_ReadsNoEffect ==
    [][ last'.op \in PureReads =>
           /\ Arena' = Arena
           /\ props' = props
           /\ consts' = consts ]_vars

\* a read returned a payload, and a read found its slot missing
C30_Witness ==
    /\ last.op \in PureReads
    /\ last.res = Some(1)
    /\ \E h \in handles : try_with_value(h) = Missing

\* C25: when the closure of with_value or update_value disposes the slot it
\* was called on, by dispose() or by tearing down the scope, the cell is not
\* freed while the call's guard is held and the closure's reference stays
\* valid; once the call has returned the handle reports missing
C25_DisposalDuringAccess ==
    /\ \A i \in DOMAIN stack :
          /\ ~stack[i].dangling
          /\ heap[stack[i].cell] # NoCell
    /\ ( /\ last.op \in {"with_value", "update_value"}
         /\ last.called
         /\ ~Expected(last.h) ) =>
          try_with_value(last.h) = Missing

\* the slot stored under the key k = <<runtime, id>> is in its runtime's arena
Live(k) == k[1] \in alive /\ SlotMapGet(slots[k[1]], k[2]) # NoAddr

\* C31: a slot becomes missing only through dispose() on a handle to it, the
\* teardown of the scope it was registered to, or the disposal of its
\* runtime; copying a handle or dropping a copy, the last one included,
\* changes nothing in the arena, and no copy reads a slot that is gone
C31_NoOwnership ==
    [][ /\ \A k \in DOMAIN ghost :
             (Live(k) /\ ~Live(k)') =>
                \/ last'.op = "dispose" /\ Key(last'.h) = k
                \/ last'.op = "teardown" /\ last'.h.scope = ghost[k].scope
                \/ last'.op = "dispose_runtime"
        /\ last'.op \in {"clone", "drop"} =>
             (Arena' = Arena /\ props' = props)
        /\ \A h \in handles' :
             (~Live(Key(h)))' => try_with_value(h)' = Missing ]_vars

\* every copy of a handle was dropped and its slot is still in the arena
C31_Witness ==
    /\ last.op = "drop"
    /\ ghost[Key(last.h)].copies = 0
    /\ Live(Key(last.h))
    /\ \A h \in handles : Key(h) # Key(last.h)

\* the concrete type of the payload in the slot stored under the key k
PayloadType(k) == heap[SlotMapGet(slots[k[1]], k[2])].ty

\* C32: the type tag a handle got at store time, kept by downcast and by
\* unsizing coercion, is the concrete type of the payload its slot holds for
\* as long as the slot lives: no set_value changes the type of a payload
C32_TypeStable ==
    \A h \in handles :
        /\ h.ty = ghost[Key(h)].ty
        /\ Live(Key(h)) => PayloadType(Key(h)) = h.ty

\* a value of one type was offered to a live slot holding a payload of another
\* type, and was handed back
C32_Witness ==
    /\ last.op = "try_set_value"
    /\ with_runtime
    /\ SlotMapGet(stored_values, last.h.id) # NoAddr
    /\ heap[SlotMapGet(stored_values, last.h.id)].ty # last.h.view
    /\ last.res = Some(last.arg)

\* the const value's slot is in the current runtime's arena
ConstLive(h) ==
    with_runtime /\ SlotMapGet(const_values[current], h.id) # NoAddr

====
